---------------------------- MODULE Spec2Model ----------------------------
(***************************************************************************)
(* A model of main.cpp: the IState predicate classes (DiscreteState,       *)
(* SegmentState, InverseState, IntersectState, UnifyState), their object   *)
(* lifetimes, ProbabilityTest::test and the statements of main() that      *)
(* build and use the predicates.                                           *)
(*                                                                         *)
(* Objects live in `heap`, a sequence of object records; an object's       *)
(* address is its index, 0 is nullptr.  A destroyed object keeps its       *)
(* record with alive = FALSE, so a pointer or reference to it is a         *)
(* dangling one.  Undefined behaviour (reading through a null or dangling  *)
(* pointer, deleting twice, deleting an object that was not new-ed) is     *)
(* recorded in `ub` and continues with any of the outcomes a build can     *)
(* show: some value, or a crash.                                           *)
(***************************************************************************)
EXTENDS Integers, Sequences, FiniteSets, TLC

VARIABLES
    heap,        \* the objects ever constructed, by address
    ub,          \* the kinds of undefined behaviour executed so far
    phase,       \* "start"; "client", "use" (a client's two phases); main()'s position
    prob,        \* the ProbabilityTest object: <<>> or <<E_min, E_max>>
    random,      \* main(): address of the accumulator `random`, 0 before line 154
    pos,         \* main(): the local `pos`
    i,           \* main(): the loop variable of line 155
    pc,          \* "idle", "running" (inside test), "returned", "crashed"
    system,      \* test(): the argument `system` (an address)
    test_count,  \* test(): the argument `test_count`
    seed,        \* test(): the argument `seed`
    reng,        \* test(): state of the local engine `reng`
    cnt,         \* test(): the loop variable `cnt`
    good,        \* test(): the local `good`
    calls,       \* test(): number of dstr(reng) calls made by this run
    drawn,       \* test(): history, the counted draws as <<value, contains result>>
    result,      \* test(): the returned quotient <<good, test_count>>, <<>> before
    prev,        \* history: outcome of the preceding run when it had the same arguments
    lastq        \* history: the last direct contains call, <<>> or <<p, s, r, r before>>

vars == <<heap, ub, phase, prob, random, pos, i, pc, system, test_count, seed,
          reng, cnt, good, calls, drawn, result, prev, lastq>>

(***************************************************************************)
(* Bounds of the model.                                                    *)
(***************************************************************************)
\* objects a client of the classes constructs
MaxNodes == 2
\* leaf parameters a client uses are 0..MaxVal
MaxVal == 1
\* test_count is at most MaxCount
MaxCount == 2
\* seeds are 1..MaxSeed
MaxSeed == 2
\* main.cpp:133 has bound = 1000; the model runs main() with this smaller value
bound == 6

\* main.cpp:153, std::uniform_int_distribution<int> distr(1, 4)
DistrMin == 1
DistrMax == 4

Vals == 0 .. MaxVal
\* the energies a client asks contains about: the leaf values and one beyond each end
Universe == (0 - 1) .. (MaxVal + 1)
Counts == 0 .. MaxCount
Seeds == 1 .. MaxSeed
\* the ranges a client constructs a ProbabilityTest with (E_min <= E_max)
Ranges == {<<0 - 1, MaxVal + 1>>, <<0, 0>>}


(***************************************************************************)
(* Objects.  One record shape for the five classes: `a`, `b` hold s0 or    *)
(* begin_s0, end_s0; `first`, `second` hold the child addresses (base is   *)
(* `first` of an InverseState); onHeap tells a new-ed object from one with *)
(* automatic storage (a local or a temporary).                             *)
(***************************************************************************)
DiscreteState(s0, onHeap) ==
    [kind |-> "Discrete", a |-> s0, b |-> 0, first |-> 0, second |-> 0,
     onHeap |-> onHeap, alive |-> TRUE]

SegmentState(begin_s0, end_s0, onHeap) ==
    [kind |-> "Segment", a |-> begin_s0, b |-> end_s0, first |-> 0, second |-> 0,
     onHeap |-> onHeap, alive |-> TRUE]

\* the private constructors are reached through create() only: always new-ed
InverseState(base) ==
    [kind |-> "Inverse", a |-> 0, b |-> 0, first |-> base, second |-> 0,
     onHeap |-> TRUE, alive |-> TRUE]

IntersectState(first, second) ==
    [kind |-> "Intersect", a |-> 0, b |-> 0, first |-> first, second |-> second,
     onHeap |-> TRUE, alive |-> TRUE]

UnifyState(first, second, onHeap) ==
    [kind |-> "Unify", a |-> 0, b |-> 0, first |-> first, second |-> second,
     onHeap |-> onHeap, alive |-> TRUE]

Addr(h) == 1 .. Len(h)
Live(h) == {p \in Addr(h) : h[p].alive}
Composite(h, p) == h[p].kind \in {"Inverse", "Intersect", "Unify"}
\* the child slots a class has: one for InverseState, two for the others
Slots(h, p) ==
    CASE h[p].kind = "Inverse" -> {h[p].first}
      [] h[p].kind \in {"Intersect", "Unify"} -> {h[p].first, h[p].second}
      [] OTHER -> {}
\* p is a child of some live object
Referenced(h, p) == \E q \in Live(h) : Composite(h, q) /\ p \in Slots(h, q)
\* the objects a client still holds itself: alive and given to no composite
Roots(h) == {p \in Live(h) : ~Referenced(h, p)}

(***************************************************************************)
(* contains.  The value is "T" or "F", or the fault the evaluation runs    *)
(* into first: "null" (a call through nullptr), "dangling" (a call on a    *)
(* destroyed object), "overflow" (a link cycle: the recursion never        *)
(* returns).  && and || evaluate the second operand only when the first    *)
(* does not decide.                                                        *)
(***************************************************************************)
Bool(x) == IF x THEN "T" ELSE "F"

DiscreteContains(n, s) == Bool(s = n.a)

\* begin_s0 < s for begin_s0 <= s
SegmentContainsOpen(n, s) == Bool(n.a < s /\ n.b >= s)

SegmentContains(n, s) == Bool(n.a <= s /\ n.b >= s)

InverseContains(r) == IF r = "T" THEN "F" ELSE IF r = "F" THEN "T" ELSE r

\* || for &&
IntersectContainsOr(r1, r2) == IF r1 = "F" THEN r2 ELSE r1

IntersectContains(r1, r2) == IF r1 = "T" THEN r2 ELSE r1

UnifyContains(r1, r2) == IF r1 = "F" THEN r2 ELSE r1

RECURSIVE contains(_, _, _, _)
contains(h, p, s, fuel) ==
    IF p = 0 THEN "null"
    ELSE IF ~h[p].alive THEN "dangling"
    ELSE IF fuel = 0 THEN "overflow"
    ELSE CASE h[p].kind = "Discrete" -> DiscreteContains(h[p], s)
           [] h[p].kind = "Segment" -> SegmentContains(h[p], s)
           [] h[p].kind = "Inverse" ->
                InverseContains(contains(h, h[p].first, s, fuel - 1))
           [] h[p].kind = "Intersect" ->
                IntersectContains(contains(h, h[p].first, s, fuel - 1),
                                  contains(h, h[p].second, s, fuel - 1))
           [] h[p].kind = "Unify" ->
                UnifyContains(contains(h, h[p].first, s, fuel - 1),
                              contains(h, h[p].second, s, fuel - 1))

Contains(h, p, s) == contains(h, p, s, Len(h) + 1)

Fault(r) == r \notin {"T", "F"}
UbOf(r) == IF Fault(r) THEN {r} ELSE {}
\* what a call whose evaluation is r can return: r itself, or anything at all
Outcomes(r) == IF Fault(r) THEN {"T", "F", "crash"} ELSE {r}

(***************************************************************************)
(* Destruction.  Delete is `delete p`: nothing for nullptr, the destructor *)
(* and the release of the storage otherwise.  ~InverseState deletes base,  *)
(* ~IntersectState deletes first and then second, the other destructors    *)
(* delete nothing.  The result is <<heap, ub>>.                            *)
(***************************************************************************)
\* what is left of a destroyed object: nothing reads its values again
Kill(h, p) == [h EXCEPT ![p].alive = FALSE, ![p].a = 0, ![p].b = 0]

RECURSIVE Delete(_, _, _)
Destructor(h, u, p) ==
    LET d1 == IF h[p].kind \in {"Inverse", "Intersect"}
              THEN Delete(h, u, h[p].first) ELSE <<h, u>>
        d2 == IF h[p].kind = "Intersect"
              THEN Delete(d1[1], d1[2], h[p].second) ELSE d1
    IN  <<Kill(d2[1], p), d2[2]>>

Delete(h, u, p) ==
    IF p = 0 THEN <<h, u>>
    ELSE IF ~h[p].alive THEN <<h, u \cup {"double_delete"}>>
    ELSE LET d == Destructor(h, u, p)
         IN  <<d[1], d[2] \cup (IF h[p].onHeap THEN {} ELSE {"delete_non_heap"})>>

(***************************************************************************)
(* std::default_random_engine (minstd_rand0: x' = 16807 x mod 2^31 - 1,    *)
(* computed without overflow) and std::uniform_int_distribution<int>(a, b) *)
(* as libstdc++ has them: the engine's value less its minimum is rejected  *)
(* when it is past the largest multiple of the range and scaled down       *)
(* otherwise.  Draw is <<value, next engine state>>.                       *)
(***************************************************************************)
EngineSeed(s) == IF s % 2147483647 = 0 THEN 1 ELSE s % 2147483647

EngineNext(x) ==
    LET t == 16807 * (x % 127773) - 2836 * (x \div 127773)
    IN  IF t > 0 THEN t ELSE t + 2147483647

RECURSIVE Draw(_, _, _)
Draw(x, lo, hi) ==
    LET uerange == (hi - lo) + 1
        scaling == 2147483645 \div uerange
        past == uerange * scaling
        y == EngineNext(x)
    IN  IF y - 1 >= past THEN Draw(y, lo, hi)
        ELSE <<lo + ((y - 1) \div scaling), y>>

(***************************************************************************)
(* The program.                                                            *)
(***************************************************************************)
Init ==
    /\ heap = <<>>
    /\ ub = {}
    /\ phase = "start"
    /\ prob = <<>>
    /\ random = 0
    /\ pos = 0
    /\ i = 0
    /\ pc = "idle"
    /\ system = 0
    /\ test_count = 0
    /\ seed = 0
    /\ reng = 0
    /\ cnt = 0
    /\ good = 0
    /\ calls = 0
    /\ drawn = <<>>
    /\ result = <<>>
    /\ prev = <<>>
    /\ lastq = <<>>

\* no call of test is in progress: the program is single-threaded and test is synchronous
Idle == pc \in {"idle", "returned"}

\* the locals of a finished call of test are gone once the caller goes on
ForgetRun ==
    /\ system' = 0
    /\ test_count' = 0
    /\ seed' = 0
    /\ reng' = 0
    /\ cnt' = 0
    /\ good' = 0
    /\ calls' = 0
    /\ drawn' = <<>>
    /\ result' = <<>>
    /\ prev' = <<>>

MainVars == <<random, pos, i>>

\* a statement of a client of the classes that constructs or changes an object
ClientStep(h) ==
    /\ Idle
    /\ phase \in {"start", "client"}
    /\ phase' = "client"
    /\ heap' = h
    /\ pc' = "idle"
    /\ lastq' = <<>>
    /\ ForgetRun
    /\ UNCHANGED <<ub, prob, MainVars>>

CanConstruct == Len(heap) < MaxNodes

\* The client new-s every object it constructs; objects with automatic storage
\* (locals, temporaries) are main()'s.
NewDiscreteState(s0) ==
    /\ CanConstruct
    /\ ClientStep(Append(heap, DiscreteState(s0, TRUE)))

NewSegmentState(begin_s0, end_s0) ==
    /\ CanConstruct
    /\ ClientStep(Append(heap, SegmentState(begin_s0, end_s0, TRUE)))

AssignDiscreteState(left, right) ==
    /\ heap[left].kind = "Discrete"
    /\ heap[right].kind = "Discrete"
    /\ ClientStep([heap EXCEPT ![left].a = heap[right].a])

AssignSegmentState(left, right) ==
    /\ heap[left].kind = "Segment"
    /\ heap[right].kind = "Segment"
    /\ ClientStep([heap EXCEPT ![left].a = heap[right].a, ![left].b = heap[right].b])

CreateInverseEmpty ==
    /\ CanConstruct
    /\ ClientStep(Append(heap, InverseState(0)))

CreateInverse(base) ==
    /\ CanConstruct
    /\ ClientStep(Append(heap, InverseState(base)))

CreateIntersectEmpty ==
    /\ CanConstruct
    /\ ClientStep(Append(heap, IntersectState(0, 0)))

CreateIntersect(first, second) ==
    /\ CanConstruct
    /\ ClientStep(Append(heap, IntersectState(first, second)))

NewUnifyState(first, second) ==
    /\ CanConstruct
    /\ ClientStep(Append(heap, UnifyState(first, second, TRUE)))

\* the end of an object's life: d is <<heap, ub>> after it.  Undefined behaviour
\* in it goes on, or ends the program.
EndOfLife(d) ==
    /\ Idle
    /\ heap' = d[1]
    /\ ub' = d[2]
    /\ pc' \in (IF d[2] = ub THEN {"idle"} ELSE {"idle", "crashed"})
    /\ lastq' = <<>>
    /\ ForgetRun

\* `delete p` by the client, of an object it new-ed and has given to no composite
DeleteRoot(p) ==
    /\ phase = "client"
    /\ EndOfLife(Delete(heap, ub, p))
    /\ UNCHANGED <<phase, prob, MainVars>>

\* a direct call p->contains(s) by the client; h is the heap after it
QueryOn(p, s, h) ==
    /\ Idle
    /\ phase \in {"client", "use"}
    /\ LET r == Contains(heap, p, s)
       IN  /\ ub' = ub \cup UbOf(r)
           /\ \E o \in Outcomes(r) :
                IF o = "crash"
                THEN pc' = "crashed" /\ lastq' = <<>>
                ELSE /\ pc' = "idle"
                     /\ lastq' = <<p, s, o,
                                   IF lastq # <<>> /\ lastq[1] = p /\ lastq[2] = s
                                   THEN lastq[3] ELSE "none">>
    /\ ForgetRun
    /\ heap' = h
    /\ UNCHANGED <<phase, prob, MainVars>>

\* a contains changing the object it is called on (the first energy asked about
\* kept in s0), as a non-const contains could
QueryCaching(p, s) == QueryOn(p, s, [heap EXCEPT ![p].a = s])

\* contains is const (line 13): the heap is as before
Query(p, s) == QueryOn(p, s, heap)

(***************************************************************************)
(* ProbabilityTest::test, one action per step: the entry up to the loop,   *)
(* one iteration, and the return.                                          *)
(***************************************************************************)
\* the objects test is called on: any object a client holds, `ordered` and,
\* after the loop of line 155, `random` by main()
Targets ==
    CASE phase = "use" -> Roots(heap)
      [] phase = "ordered" -> {1}
      [] phase = "fold" /\ i >= bound \div 2 -> {random}
      [] OTHER -> {}

\* lines 119-122 with the engine starting in state e: one value is drawn and dropped
TestEntry(p, n, sd, e) ==
    /\ Idle
    /\ p \in Targets
    /\ phase = "use" \/ n > 0
    /\ system' = p
    /\ test_count' = n
    /\ seed' = sd
    /\ reng' = Draw(e, prob[1], prob[2])[2]
    /\ calls' = 1
    /\ good' = 0
    /\ cnt' = 0
    /\ drawn' = <<>>
    /\ result' = <<>>
    /\ prev' = IF pc = "returned" /\ system = p /\ test_count = n /\ seed = sd
               THEN <<drawn, good, result>> ELSE <<>>
    /\ pc' = "running"
    /\ lastq' = <<>>
    /\ UNCHANGED <<heap, ub, phase, prob, MainVars>>

\* an engine that outlives the call (a static or member engine), seeded once
TestBeginStatic(p, n, sd) ==
    TestEntry(p, n, sd, IF reng = 0 THEN EngineSeed(sd) ELSE reng)

\* line 119: reng is a local, constructed from seed in every call
TestBegin(p, n, sd) == TestEntry(p, n, sd, EngineSeed(sd))

\* a loop counting every draw
CountedAlways(o, g) == g + 1

\* lines 124-125: good++ when contains returned true
Counted(o, g) == IF o = "T" THEN g + 1 ELSE g

\* lines 123-125: one iteration of the loop
TestLoop ==
    /\ pc = "running"
    /\ cnt # test_count
    /\ LET d == Draw(reng, prob[1], prob[2])
           r == Contains(heap, system, d[1])
       IN  /\ reng' = d[2]
           /\ calls' = calls + 1
           /\ ub' = ub \cup UbOf(r)
           /\ \E o \in Outcomes(r) :
                IF o = "crash"
                THEN pc' = "crashed" /\ UNCHANGED <<good, cnt, drawn>>
                ELSE /\ pc' = "running"
                     /\ good' = Counted(o, good)
                     /\ cnt' = cnt + 1
                     /\ drawn' = Append(drawn, <<d[1], o>>)
    /\ UNCHANGED <<heap, phase, prob, MainVars, system, test_count, seed, result,
                   prev, lastq>>

\* a loop left one iteration early
TestReturnEarly ==
    /\ pc = "running"
    /\ cnt = test_count \/ cnt + 1 = test_count
    /\ result' = <<good, test_count>>
    /\ pc' = "returned"
    /\ UNCHANGED <<heap, ub, phase, prob, MainVars, system, test_count, seed, reng,
                   cnt, good, calls, drawn, prev, lastq>>

\* line 126: the quotient good / test_count, kept as the pair; <<0, 0>> is 0.0f / 0.0f
TestReturn ==
    /\ pc = "running"
    /\ cnt = test_count
    /\ result' = <<good, test_count>>
    /\ pc' = "returned"
    /\ UNCHANGED <<heap, ub, phase, prob, MainVars, system, test_count, seed, reng,
                   cnt, good, calls, drawn, prev, lastq>>

(***************************************************************************)
(* main().  Output to the files is left out.                               *)
(***************************************************************************)
\* lines 131-139: prob(-bound, bound) and the local `ordered`
MainOrdered ==
    /\ phase = "start"
    /\ phase' = "ordered"
    /\ prob' = <<0 - bound, bound>>
    /\ heap' = <<SegmentState(0, bound \div 2, FALSE)>>
    /\ UNCHANGED <<ub, MainVars, pc, system, test_count, seed, reng, cnt, good,
                   calls, drawn, result, prev, lastq>>

\* lines 147-154: `random` is built from two temporaries, which are destroyed at
\* the end of the statement.  The order in which the two arguments are evaluated
\* is the compiler's choice.
MainRandom ==
    /\ Idle
    /\ phase = "ordered"
    /\ \E d \in DistrMin .. DistrMax, leftFirst \in BOOLEAN :
         LET n == Len(heap)
             t1 == DiscreteState(IF leftFirst THEN 0 - bound ELSE d - bound, FALSE)
             t2 == DiscreteState(d - bound, FALSE)
             h1 == heap \o <<t1, t2, UnifyState(n + 1, n + 2, FALSE)>>
         IN  /\ heap' = Kill(Kill(h1, n + 1), n + 2)
             /\ random' = n + 3
             /\ pos' = d - bound
    /\ i' = 2
    /\ phase' = "fold"
    /\ pc' = "idle"
    /\ lastq' = <<>>
    /\ ForgetRun
    /\ UNCHANGED <<ub, prob>>

\* UnifyState::operator= is declared at line 103 and has no body.  The members
\* are references: an assignment either leaves them bound as they are or binds
\* them as the right-hand side's are.
UnifyAssign(h, left, right, rebind) ==
    IF rebind
    THEN [h EXCEPT ![left].first = h[right].first, ![left].second = h[right].second]
    ELSE h

\* lines 155-156: one iteration, random = UnifyState(random, DiscreteState(pos += d))
MainFold ==
    /\ Idle
    /\ phase = "fold"
    /\ i < bound \div 2
    /\ \E d \in DistrMin .. DistrMax, rebind \in BOOLEAN :
         LET n == Len(heap)
             h1 == heap \o <<DiscreteState(pos + d, FALSE),
                             UnifyState(random, n + 1, FALSE)>>
             h2 == UnifyAssign(h1, random, n + 2, rebind)
         IN  /\ heap' = Kill(Kill(h2, n + 2), n + 1)
             /\ pos' = pos + d
    /\ i' = i + 1
    /\ pc' = "idle"
    /\ lastq' = <<>>
    /\ ForgetRun
    /\ UNCHANGED <<ub, phase, prob, random>>

\* line 166: delete random
MainDelete ==
    /\ phase = "fold"
    /\ i >= bound \div 2
    /\ EndOfLife(Delete(heap, ub, random))
    /\ phase' = "done"
    /\ UNCHANGED <<prob, MainVars>>

Next ==
    \/ \E s0 \in Vals : NewDiscreteState(s0)
    \/ \E b \in Vals, e \in Vals : NewSegmentState(b, e)
    \/ \E l \in Live(heap), r \in Live(heap) : AssignDiscreteState(l, r)
    \/ \E l \in Live(heap), r \in Live(heap) : AssignSegmentState(l, r)
    \/ CreateInverseEmpty
    \/ \E base \in Live(heap) : CreateInverse(base)
    \/ CreateIntersectEmpty
    \/ \E first \in Live(heap), second \in Live(heap) : CreateIntersect(first, second)
    \/ \E first \in Live(heap), second \in Live(heap) : NewUnifyState(first, second)
    \/ \E p \in Roots(heap) : DeleteRoot(p)
    \/ \E p \in Roots(heap), s \in Universe : Query(p, s)
    \/ \E p \in Addr(heap), n \in Counts, sd \in Seeds : TestBegin(p, n, sd)
    \/ TestLoop
    \/ TestReturn
    \/ MainOrdered
    \/ MainRandom
    \/ MainFold
    \/ MainDelete

Spec == Init /\ [][Next]_vars

(***************************************************************************)
(* The query phase of a client.  contains and test read the objects and    *)
(* change none, so the phase is followed on its own, from each of the      *)
(* object graphs below: what the constructors and create() functions       *)
(* above build from one or two leaves, and what is left when a leaf given  *)
(* to two InverseStates is deleted by one of them.                         *)
(***************************************************************************)
Leaves ==
    {DiscreteState(s0, TRUE) : s0 \in Vals}
        \cup {SegmentState(b, e, TRUE) : b \in Vals, e \in Vals}

Built ==
    {<<l>> : l \in Leaves}
        \cup {<<InverseState(0)>>, <<IntersectState(0, 0)>>}
        \cup {<<l, c>> : l \in Leaves,
                         c \in {InverseState(1), IntersectState(1, 1),
                                UnifyState(1, 1, TRUE)}}
        \cup {Delete(<<l, InverseState(1), InverseState(1)>>, {}, 2)[1] : l \in Leaves}
        \cup {<<l[1], l[2], c>> : l \in Leaves \X Leaves,
                                  c \in {IntersectState(1, 2), IntersectState(2, 1),
                                         UnifyState(1, 2, TRUE), UnifyState(2, 1, TRUE)}}
        \cup {<<l[1], l[2], c, InverseState(3)>> :
                 l \in Leaves \X Leaves,
                 c \in {IntersectState(1, 2), UnifyState(1, 2, TRUE)}}

InitUse ==
    /\ heap \in Built
    /\ ub = {}
    /\ phase = "use"
    /\ prob \in Ranges
    /\ random = 0
    /\ pos = 0
    /\ i = 0
    /\ pc = "idle"
    /\ system = 0
    /\ test_count = 0
    /\ seed = 0
    /\ reng = 0
    /\ cnt = 0
    /\ good = 0
    /\ calls = 0
    /\ drawn = <<>>
    /\ result = <<>>
    /\ prev = <<>>
    /\ lastq = <<>>

NextUse ==
    \/ \E p \in Roots(heap), s \in Universe : Query(p, s)
    \/ \E p \in Addr(heap), n \in Counts, sd \in Seeds : TestBegin(p, n, sd)
    \/ TestLoop
    \/ TestReturn

SpecUse == InitUse /\ [][NextUse]_vars

\* test is an ordinary function of a running program: a call that has begun goes on
SpecUseFair == SpecUse /\ WF_vars(TestLoop) /\ WF_vars(TestReturn)

(***************************************************************************)
(* What the properties below are stated with.                              *)
(***************************************************************************)
\* p is a predicate: an object that is alive, as is everything it refers to, with
\* no child absent and no link leading back
RECURSIVE wellFormed(_, _, _)
wellFormed(h, p, fuel) ==
    /\ p \in Addr(h)
    /\ h[p].alive
    /\ fuel > 0
    /\ \A c \in Slots(h, p) : wellFormed(h, c, fuel - 1)

WellFormed(h, p) == wellFormed(h, p, Len(h))

\* the region of U a predicate stands for
RECURSIVE Denote(_, _, _)
Denote(h, p, U) ==
    CASE h[p].kind = "Discrete" -> {h[p].a} \cap U
      [] h[p].kind = "Segment" -> (h[p].a .. h[p].b) \cap U
      [] h[p].kind = "Inverse" -> U \ Denote(h, h[p].first, U)
      [] h[p].kind = "Intersect" -> Denote(h, h[p].first, U) \cap Denote(h, h[p].second, U)
      [] h[p].kind = "Unify" -> Denote(h, h[p].first, U) \cup Denote(h, h[p].second, U)

Predicates == {p \in Addr(heap) : WellFormed(heap, p)}

Hits(d) == Cardinality({k \in 1 .. Len(d) : d[k][2] = "T"})

(***************************************************************************)
(* C2: for every predicate tree of Discrete, Interval, Not, And and Or     *)
(* nodes and every energy s, contains(s) is membership of s in the region  *)
(* the tree stands for: {s0}, lo..hi (empty when lo > hi), the complement, *)
(* the intersection, the union.  Both what a contains call returned and    *)
(* what it evaluates to on every predicate of the heap are compared.       *)
(***************************************************************************)
C2_ContainsIsMembership ==
    /\ \A p \in Predicates, s \in Universe :
         Contains(heap, p, s) = Bool(s \in Denote(heap, p, Universe))
    /\ lastq # <<>> /\ lastq[1] \in Predicates
         => lastq[3] = Bool(lastq[2] \in Denote(heap, lastq[1], Universe))

\* contains returned true on Not(And(a, b)) with a an inverted interval
C2_Witness ==
    /\ lastq # <<>>
    /\ lastq[1] \in Predicates
    /\ lastq[3] = "T"
    /\ heap[lastq[1]].kind = "Inverse"
    /\ LET c == heap[lastq[1]].first
       IN  /\ heap[c].kind = "Intersect"
           /\ heap[c].first # heap[c].second
           /\ heap[heap[c].first].kind = "Segment"
           /\ heap[heap[c].first].a > heap[heap[c].first].b

\* Not(And(a, b)) and Or(Not(a), Not(b)) built over objects a and b of h
NotAnd(h, a, b) == h \o <<IntersectState(a, b), InverseState(Len(h) + 1)>>
OrNotNot(h, a, b) ==
    h \o <<InverseState(a), InverseState(b), UnifyState(Len(h) + 1, Len(h) + 2, TRUE)>>

(***************************************************************************)
(* C8: De Morgan.  For all predicates a and b and every energy s,          *)
(* Not(And(a, b)).contains(s) = Or(Not(a), Not(b)).contains(s); the two    *)
(* composites are built over a and b with the constructors.                *)
(***************************************************************************)
C8_DeMorgan ==
    \A a \in Predicates, b \in Predicates :
        LET l == NotAnd(heap, a, b)
            r == OrNotNot(heap, a, b)
        IN  \A s \in Universe : Contains(l, Len(l), s) = Contains(r, Len(r), s)

\* contains was called on a Not(And(a, b)) of the heap, with a and b differing at s,
\* and returned what Or(Not(a), Not(b)) evaluates to
C8_Witness ==
    /\ lastq # <<>>
    /\ lastq[1] \in Predicates
    /\ heap[lastq[1]].kind = "Inverse"
    /\ LET c == heap[lastq[1]].first
       IN  /\ heap[c].kind = "Intersect"
           /\ Contains(heap, heap[c].first, lastq[2]) = "T"
           /\ Contains(heap, heap[c].second, lastq[2]) = "F"
           /\ lastq[3] = Contains(OrNotNot(heap, heap[c].first, heap[c].second),
                                  Len(heap) + 3, lastq[2])

(***************************************************************************)
(* C1: a call of test with E_min <= E_max and test_count > 0 returns       *)
(* (the number of counted draws on which contains returned true) /         *)
(* test_count; every counted draw is in E_min..E_max, so the number is in  *)
(* 0..test_count and the result in [0, 1]; on a predicate, what contains   *)
(* returned on a draw is whether the predicate contains it.                *)
(***************************************************************************)
C1_TestReturnsHitFraction ==
    pc = "returned" /\ test_count > 0 =>
        /\ result = <<Hits(drawn), test_count>>
        /\ Len(drawn) = test_count
        /\ \A k \in 1 .. Len(drawn) : prob[1] <= drawn[k][1] /\ drawn[k][1] <= prob[2]
        /\ 0 <= result[1] /\ result[1] <= result[2]
        /\ system \in Predicates =>
             \A k \in 1 .. Len(drawn) :
                 drawn[k][2] = Contains(heap, system, drawn[k][1])

\* a run of MaxCount draws on a predicate returned with hits and misses
C1_Witness ==
    /\ pc = "returned"
    /\ test_count = MaxCount
    /\ system \in Predicates
    /\ 0 < result[1] /\ result[1] < result[2]

(***************************************************************************)
(* C3: determinism of test.  A run on the same predicate with the same     *)
(* range, test_count and seed as the run before it draws the same values   *)
(* and counts the same hits, and returns the same result: nothing the      *)
(* earlier run left behind reaches the later one.                          *)
(***************************************************************************)
C3_TestDeterministic ==
    prev # <<>> /\ system \in Predicates =>
        /\ pc = "running" => drawn = SubSeq(prev[1], 1, Len(drawn))
        /\ pc = "returned" => prev = <<drawn, good, result>>

\* the second of two runs with the same arguments returned, after MaxCount draws
C3_Witness ==
    /\ pc = "returned"
    /\ prev # <<>>
    /\ system \in Predicates
    /\ test_count = MaxCount
    /\ result[1] > 0

(***************************************************************************)
(* C4: a call of test with test_count = 0 ends in an error or in a         *)
(* documented constant, and never divides by 0: no call returns a quotient *)
(* whose divisor is 0.                                                     *)
(***************************************************************************)
C4_ZeroCountNeverDivides ==
    pc = "returned" => result[2] # 0

(***************************************************************************)
(* C5: a composite with an absent child (InverseState::create(),           *)
(* IntersectState::create()) fails with a defined error at construction or *)
(* at the first contains: no contains call goes through the absent child,  *)
(* and none on such an object returns a boolean.                           *)
(***************************************************************************)
C5_AbsentChildFailsFast ==
    /\ "null" \notin ub
    /\ lastq # <<>> => 0 \notin Slots(heap, lastq[1])

\* the objects p refers to, directly or through live objects
RECURSIVE reach(_, _, _)
reach(h, p, fuel) ==
    IF p = 0 \/ fuel = 0 THEN {}
    ELSE {p} \cup (IF h[p].alive
                   THEN UNION {reach(h, c, fuel - 1) : c \in Slots(h, p)}
                   ELSE {})

Reach(h, p) == reach(h, p, Len(h))

(***************************************************************************)
(* C6: no dangling child in the iterative composition.  From line 154 on,  *)
(* at every step of the fold and at every later use, every object the      *)
(* accumulator `random` refers to, directly or through other objects, is   *)
(* alive, and no contains on it reads a destroyed object.                  *)
(***************************************************************************)
C6_AccumulatorChildrenAlive ==
    random # 0 /\ heap[random].alive =>
        /\ \A q \in Reach(heap, random) : heap[q].alive
        /\ system = random => "dangling" \notin ub

\* a step in which contains was called, and a step of a call of test
ContainsStep == lastq' # <<>> /\ (lastq' # lastq \/ pc' # pc)
TestStep == pc = "running" \/ pc' = "running"

\* contains answers as it answered before
C7_Repeatable ==
    /\ lastq # <<>> /\ lastq[4] # "none" /\ lastq[1] \in Predicates
         => lastq[4] = lastq[3]
    /\ pc \in {"running", "returned"} /\ system \in Predicates
         => \A k \in 1 .. Len(drawn) : drawn[k][2] = Contains(heap, system, drawn[k][1])

(***************************************************************************)
(* C7: purity of the query phase.  A contains call and every step of a     *)
(* call of test leave every object as it is (values, child links,          *)
(* lifetime) and change nothing but test's own locals; contains asked      *)
(* again about the same energy on the same predicate returns what it       *)
(* returned before, and inside a run what contains returned on a draw is   *)
(* still what the predicate evaluates to after the later calls.            *)
(***************************************************************************)
C7_QueryPhasePure ==
    /\ []C7_Repeatable
    /\ [][ContainsStep \/ TestStep => UNCHANGED <<heap, phase, prob, random, pos, i>>]_vars

\* contains was asked twice in a row on an And about an energy it contains
C7_Witness ==
    /\ lastq # <<>>
    /\ lastq[1] \in Predicates
    /\ heap[lastq[1]].kind = "Intersect"
    /\ lastq[3] = "T"
    /\ lastq[4] = "T"

C9_Counts ==
    /\ pc = "running" =>
         cnt <= test_count /\ calls = cnt + 1 /\ Len(drawn) = cnt /\ result = <<>>
    /\ pc = "returned" =>
         cnt = test_count /\ calls = test_count + 1 /\ Len(drawn) = test_count
    /\ pc = "crashed" => result = <<>>

Owns(h, p) ==
    IF h[p].kind \in {"Inverse", "Intersect"} THEN Slots(h, p) \ {0} ELSE {}

RECURSIVE ownedFrom(_, _, _)
ownedFrom(h, p, fuel) ==
    IF fuel = 0 THEN {}
    ELSE Owns(h, p) \cup UNION {ownedFrom(h, c, fuel - 1) : c \in Owns(h, p)}

(***************************************************************************)
(* C10: exclusive ownership.  The links to owned children (base of an      *)
(* InverseState, first and second of an IntersectState) form no cycle; no  *)
(* object is destroyed twice, also when one object is both children of an  *)
(* IntersectState or a child of two parents; no object that was not new-ed *)
(* is deleted; and once an owner is destroyed no new-ed child of it is     *)
(* still allocated.                                                        *)
(***************************************************************************)
C10_ExclusiveOwnership ==
    /\ \A p \in Addr(heap) : p \notin ownedFrom(heap, p, Len(heap))
    /\ "double_delete" \notin ub
    /\ "delete_non_heap" \notin ub
    /\ \A p \in Addr(heap) : ~heap[p].alive =>
         \A c \in Owns(heap, p) : heap[c].onHeap => ~heap[c].alive

=============================================================================
